---- MODULE Spec2Model ----
(***************************************************************************)
(* A model of one dflood node (python/dflood.py): the three soft-state     *)
(* tables, the three message handlers (from_radio, from_app, ctrl_in) and  *)
(* the clock the handlers read.                                            *)
(*                                                                         *)
(* Time is counted in units of half a second, so that the three sink       *)
(* backoffs of the source (1 s, 2.5 s, 5 s) are the integers 2, 5 and 10.  *)
(* Every time.time() call of one handler run reads the same instant `now`. *)
(* Byte vectors are sequences; the source's 0-based index i is At(data,i). *)
(* A handler that raises leaves the state as it was at the raise and       *)
(* records the exception in `raised`.                                      *)
(***************************************************************************)
EXTENDS Integers, Sequences, FiniteSets, TLC

\* ------------------------------------------------------------ bounds
MaxTime == 6
MaxDataTime == 4
MaxNotiTime == 2
MaxAddr == 2
MaxSeq == 1
MaxHc == 1
MaxTtl == 2
MaxNdupl == 2
MaxEma == 1
MaxPkt == 2
MaxDataPkt == 1
MaxBeacon == 2

\* ------------------------------------------------ program constants
large_backoff == 10
small_backoff == 5
low_backoff == 2

PKT_PROT_ID == 0
PKT_SNDR == 1
PKT_SRC == 2
PKT_SN == 3
PKT_HC == 4
DATA_PKT_MIN_LENGTH == 7
DATA_PROTO == 0
DATA_PKT_DEST == 5
DATA_PKT_TTL == 6
SINK_PKT_LENGTH == 5
SINK_PROTO == 1
RECV_NOTI_LENGTH == 4
NOTI_PROTO == 2

\* ------------------------------------- construction parameters used
Tmin == 1
Tmax == 2
Plt == 2
Slt == 5
R == 2
InitialBroadcastInterval == 2

\* None: the value of `data` after a NOTI or a forward, and of
\* sink_pkt_xmit_time before the first beacon.  A stored packet has at
\* least DATA_PKT_MIN_LENGTH bytes, so the empty sequence is free for it.
None == << >>
NoTime == -1

\* the threads that run the three message handlers, and the owner of a
\* free lock
Threads == { "from_radio", "from_app", "ctrl_in" }

NoThread == "none"

VARIABLES
    addr, SINK_ADDR, debug_stderr, Ndupl,
    now,
    broadcast_interval, sequence_number, sink_pkt_xmit_time, pkt_cnt,
    sinkNeighborTable, sinkTable, dataPacketTable,
    to_radio, to_app, raised, last,
    fwdLife, forwarded, appSent,
    pc, lock_owner, lock_count

conf == <<addr, SINK_ADDR, debug_stderr, Ndupl>>
tables == <<sinkNeighborTable, sinkTable, dataPacketTable>>
counters == <<broadcast_interval, sequence_number, sink_pkt_xmit_time, pkt_cnt>>
hist == <<fwdLife, forwarded>>
threads == <<pc, lock_owner, lock_count>>
vars == <<conf, now, counters, tables, to_radio, to_app, raised, last, hist, appSent,
          threads>>

\* ------------------------------------------------------------ helpers
At(data, i) == data[i + 1]

Put(t, k, v) == [x \in (DOMAIN t) \cup {k} |-> IF x = k THEN v ELSE t[x]]

Remove(t, S) == [x \in (DOMAIN t) \ S |-> t[x]]

EmptyTable == [x \in {} |-> 0]

Min(S) == CHOOSE m \in S : \A x \in S : m <= x

\* every order in which a dictionary's keys may be visited
RECURSIVE Orders(_)
Orders(S) ==
    IF S = {} THEN { << >> }
    ELSE UNION { { <<k>> \o o : o \in Orders(S \ {k}) } : k \in S }

\* Intervals are the rationals n / 5^k, kept as <<n, k>> in lowest terms:
\* the exponential average 0.8 * old + 0.2 * d stays in that set.
RECURSIVE Pow5(_)
Pow5(k) == IF k = 0 THEN 1 ELSE 5 * Pow5(k - 1)

RECURSIVE Norm(_)
Norm(q) == IF q[2] > 0 /\ q[1] % 5 = 0 THEN Norm(<<q[1] \div 5, q[2] - 1>>) ELSE q

Rat(n) == <<n, 0>>

\* 0.8 * obi + 0.2 * d
Ema(obi, d) == Norm(<<4 * obi[1] + d * Pow5(obi[2]), obi[2] + 1>>)

\* ----------------------------------------------------------- records
SinkNeighborVal(sn, dx, heard, bi) ==
    [last_rcvd_seq_num |-> sn, min_dx_to_sink |-> dx,
     last_time_heard |-> heard, broadcast_interval |-> bi]

SinkVal(sn, dx, heard, ft, sched, tmp) ==
    [highest_rcvd_seq_num |-> sn, min_dx_to_sink |-> dx,
     last_time_heard |-> heard, forwarding_time |-> ft,
     scheduled |-> sched, temp_min_dx_to_sink |-> tmp]

DataPktVal(d, heard, ft, sched, dup) ==
    [data |-> d, last_time_heard |-> heard, forwarding_time |-> ft,
     scheduled |-> sched, duplicates |-> dup]

\* ---------------------------------------------------------- metadata
\* the metadata of a PDU: a dictionary, kept as the set of its
\* <<key, value>> items, or a PMT value that is no dictionary
Dict(items) == [is_dict |-> TRUE, items |-> items]

NotADict == [is_dict |-> FALSE, items |-> {}]

EmptyMeta == Dict({})

CrcMeta(ok) == Dict({ <<"CRC_OK", ok>> })

\* pmt.to_python(meta), replaced by {} when it is no dict
MetaDict(meta) == IF meta.is_dict THEN meta.items ELSE {}

\* meta_dict['CRC_OK'], True when the key is absent
CrcOk(meta_dict) == \A item \in meta_dict : item[1] = "CRC_OK" => item[2]

\* pmt.to_pmt(meta_dict)
ToPmt(meta_dict) == Dict(meta_dict)

\* the message published on to_app
AppMsg(data, meta_dict) == [meta |-> ToPmt(meta_dict), data |-> data]

\* ------------------------------------------------------------- Init
Init ==
    /\ addr \in {0, 1}
    /\ SINK_ADDR = 0
    /\ debug_stderr \in BOOLEAN
    /\ Ndupl \in 0..MaxNdupl
    /\ now = 0
    /\ broadcast_interval \in { Rat(0), Rat(InitialBroadcastInterval) }
    /\ sequence_number = 0
    /\ sink_pkt_xmit_time = NoTime
    /\ pkt_cnt = 0
    /\ sinkNeighborTable = EmptyTable
    /\ sinkTable = EmptyTable
    /\ dataPacketTable = EmptyTable
    /\ to_radio = << >>
    /\ to_app = << >>
    /\ raised = "none"
    /\ last = [op |-> "init", at |-> "init"]
    /\ fwdLife = EmptyTable
    /\ forwarded = {}
    /\ appSent = 0
    /\ pc = [t \in Threads |-> "idle"]
    /\ lock_owner = NoThread
    /\ lock_count = 0

\* the clock read by time.time() moves on between two handler runs
Advance(limit) ==
    /\ now < limit
    /\ now' = now + 1
    /\ UNCHANGED <<conf, counters, tables, to_radio, to_app, raised, last, hist, appSent>>

\* ------------------------------------------------- what a handler returns
\* a handler run that returns normally or raises
Returns == raised' = "none"

Raises(e) == raised' = e

\* ------------------------------------------------ handle_sink_packet
\* the interval stored with the sink-neighbor entry (debug mode: without
\* it neither branch assigns nbi)
NewInterval(key) ==
    IF key \notin DOMAIN sinkNeighborTable
    THEN broadcast_interval
    ELSE Ema(sinkNeighborTable[key].broadcast_interval,
             now - sinkNeighborTable[key].last_time_heard)

minium_addr_in_sink_neighbor_table(t) == Min({ k[1] : k \in DOMAIN t })

\* the entry created for a sink heard for the first time
NewSinkVal(data) ==
    SinkVal(At(data, PKT_SN), At(data, PKT_HC) + 1, now,
            now + small_backoff, TRUE, At(data, PKT_HC))

\* a comparison of sequence numbers that follows the counter around 255
NewerSeq_WrapAware(sn, highest_rcvd_seq_num) ==
    (sn - highest_rcvd_seq_num) % 256 \in 1..127

\* the sink packet is newer than the one recorded: raw values compared
NewerSeq(sn, highest_rcvd_seq_num) == sn > highest_rcvd_seq_num

\* the small backoff whatever the hop count of the newer sink packet
NewerBackoff_AlwaysSmall(hc, min_dx_to_sink) == small_backoff

\* the backoff of the forward of a newer sink packet: large when it was
\* heard from farther from the sink than this node
NewerBackoff(hc, min_dx_to_sink) ==
    IF hc > min_dx_to_sink THEN large_backoff ELSE small_backoff

\* the entry written back for a sink already in the table
UpdatedSinkVal(aSinkVal, data) ==
    LET sn == At(data, PKT_SN)
        hc == At(data, PKT_HC)
        newer == NewerSeq(sn, aSinkVal.highest_rcvd_seq_num)
        same == sn = aSinkVal.highest_rcvd_seq_num
        better == same /\ ~aSinkVal.scheduled /\ hc < aSinkVal.min_dx_to_sink
        lower == same /\ aSinkVal.scheduled /\ hc < aSinkVal.temp_min_dx_to_sink
    IN  SinkVal(
            IF newer THEN sn ELSE aSinkVal.highest_rcvd_seq_num,
            aSinkVal.min_dx_to_sink,
            now,
            IF newer THEN now + NewerBackoff(hc, aSinkVal.min_dx_to_sink)
            ELSE IF better THEN now + low_backoff
            ELSE aSinkVal.forwarding_time,
            IF newer \/ better THEN TRUE ELSE aSinkVal.scheduled,
            IF newer \/ lower THEN hc ELSE aSinkVal.temp_min_dx_to_sink)

handle_sink_packet(data) ==
    LET nkey == <<At(data, PKT_SNDR), At(data, PKT_SRC)>>
        key == At(data, PKT_SRC)
    IN  IF ~debug_stderr
        THEN \* nbi is read at the record's construction, assigned nowhere
             /\ Raises("UnboundLocalError")
             /\ to_radio' = << >>
             /\ to_app' = << >>
             /\ UNCHANGED <<counters, tables, hist>>
        ELSE LET nbi == NewInterval(nkey)
                 newNT == Put(sinkNeighborTable, nkey,
                              SinkNeighborVal(At(data, PKT_SN), At(data, PKT_HC), now, nbi))
             IN  /\ nbi[2] <= MaxEma
                 /\ sinkNeighborTable' = newNT
                 /\ broadcast_interval' =
                        IF addr > minium_addr_in_sink_neighbor_table(newNT)
                        THEN newNT[nkey].broadcast_interval
                        ELSE broadcast_interval
                 /\ sinkTable' =
                        IF key \notin DOMAIN sinkTable
                        THEN Put(sinkTable, key, NewSinkVal(data))
                        ELSE Put(sinkTable, key, UpdatedSinkVal(sinkTable[key], data))
                 /\ Returns
                 /\ to_radio' = << >>
                 /\ to_app' = << >>
                 /\ UNCHANGED <<sequence_number, sink_pkt_xmit_time, pkt_cnt,
                                dataPacketTable, hist>>

\* ------------------------------------------------ handle_data_packet
\* the bytes of a receive notification
NotificationPkt(source, seq_num) == <<NOTI_PROTO, addr, source, seq_num>>

\* UserData keeping the last byte of the header
UserData_FromTtl(data) == SubSeq(data, DATA_PKT_MIN_LENGTH, Len(data))

\* the bytes handed to the application: those after the header
UserData(data) == SubSeq(data, DATA_PKT_MIN_LENGTH + 1, Len(data))

\* the packet rewritten without the decrement of its time to live
RewrittenPkt_SameTtl(data, my_dx_to_sink) ==
    [i \in 1..Len(data) |->
        IF i = PKT_SNDR + 1 THEN addr
        ELSE IF i = PKT_HC + 1 THEN my_dx_to_sink
        ELSE data[i]]

\* the packet as it will be forwarded: sender, hop count and TTL rewritten
RewrittenPkt(data, my_dx_to_sink) ==
    [i \in 1..Len(data) |->
        IF i = PKT_SNDR + 1 THEN addr
        ELSE IF i = PKT_HC + 1 THEN my_dx_to_sink
        ELSE IF i = DATA_PKT_TTL + 1 THEN At(data, DATA_PKT_TTL) - 1
        ELSE data[i]]

\* the new entry with a forwarding time that leaves Tmin out
NewDataPktVal_NoTmin(data, my_dx_to_sink, delay) ==
    DataPktVal(RewrittenPkt(data, my_dx_to_sink), now, now + delay - Tmin, TRUE, 0)

\* the entry created for a packet seen for the first time; delay is the
\* drawn Tmin + random() * (Tmax - Tmin)
NewDataPktVal(data, my_dx_to_sink, delay) ==
    DataPktVal(RewrittenPkt(data, my_dx_to_sink), now, now + delay, TRUE, 0)

\* DuplicateDataPktVal that also refreshes last_time_heard
DuplicateDataPktVal_Refreshed(aDataPktVal) ==
    DataPktVal(aDataPktVal.data, now,
               aDataPktVal.forwarding_time,
               aDataPktVal.duplicates + 1 < Ndupl,
               aDataPktVal.duplicates + 1)

\* DuplicateDataPktVal with the test duplicates + 1 <= Ndupl
DuplicateDataPktVal_Inclusive(aDataPktVal) ==
    DataPktVal(aDataPktVal.data, aDataPktVal.last_time_heard,
               aDataPktVal.forwarding_time,
               aDataPktVal.duplicates + 1 <= Ndupl,
               aDataPktVal.duplicates + 1)

\* the entry after one more copy from a node no farther from the sink
DuplicateDataPktVal(aDataPktVal) ==
    DataPktVal(aDataPktVal.data, aDataPktVal.last_time_heard,
               aDataPktVal.forwarding_time,
               aDataPktVal.duplicates + 1 < Ndupl,
               aDataPktVal.duplicates + 1)

\* a test of the time to live that compares with one hop less
TtlTooSmall_OneLess(data, my_dx_to_sink) == At(data, DATA_PKT_TTL) < my_dx_to_sink

\* the time to live left after this hop does not reach the sink
TtlTooSmall(data, my_dx_to_sink) == At(data, DATA_PKT_TTL) - 1 < my_dx_to_sink

handle_data_packet(data, meta_dict) ==
    LET dest == At(data, DATA_PKT_DEST)
        key == <<At(data, PKT_SRC), dest, At(data, PKT_SN)>>
    IN  /\ Returns
        /\ UNCHANGED <<counters, sinkNeighborTable, sinkTable, forwarded>>
        /\ IF dest = addr
           THEN /\ to_radio' = << NotificationPkt(At(data, PKT_SRC), At(data, PKT_SN)) >>
                /\ to_app' = << AppMsg(UserData(data), meta_dict) >>
                /\ UNCHANGED <<dataPacketTable, fwdLife>>
           ELSE /\ to_radio' = << >>
                /\ to_app' = << >>
                /\ IF dest \notin DOMAIN sinkTable
                   THEN UNCHANGED <<dataPacketTable, fwdLife>>
                   ELSE LET my_dx_to_sink == sinkTable[dest].min_dx_to_sink
                        IN  IF TtlTooSmall(data, my_dx_to_sink)
                            THEN UNCHANGED <<dataPacketTable, fwdLife>>
                            ELSE IF key \notin DOMAIN dataPacketTable
                            THEN \E delay \in Tmin..Tmax :
                                    /\ dataPacketTable' = Put(dataPacketTable, key,
                                           NewDataPktVal(data, my_dx_to_sink, delay))
                                    /\ fwdLife' = Put(fwdLife, key, 0)
                            ELSE IF At(data, PKT_HC) <= my_dx_to_sink
                            THEN /\ dataPacketTable[key].duplicates < MaxNdupl
                                 /\ dataPacketTable' = Put(dataPacketTable, key,
                                        DuplicateDataPktVal(dataPacketTable[key]))
                                 /\ UNCHANGED fwdLife
                            ELSE UNCHANGED <<dataPacketTable, fwdLife>>

\* --------------------------------------- handle_receive_notification

\* NotifiedDataPktVal forgetting the duplicates heard
NotifiedDataPktVal_Reset(aDataPktVal) ==
    DataPktVal(None, aDataPktVal.last_time_heard, 0, FALSE, 0)

\* the entry after the receive notification of its packet
NotifiedDataPktVal(aDataPktVal) ==
    DataPktVal(None, aDataPktVal.last_time_heard, 0, FALSE, aDataPktVal.duplicates)

\* the data-packet key a receive notification names
NotificationKey(data) == <<At(data, PKT_SRC), At(data, PKT_SNDR), At(data, PKT_SN)>>

handle_receive_notification(data) ==
    LET key == NotificationKey(data)
    IN  /\ Returns
        /\ to_radio' = << >>
        /\ to_app' = << >>
        /\ dataPacketTable' =
               IF key \in DOMAIN dataPacketTable
               THEN Put(dataPacketTable, key, NotifiedDataPktVal(dataPacketTable[key]))
               ELSE dataPacketTable
        /\ UNCHANGED <<counters, sinkNeighborTable, sinkTable, hist>>

\* ---------------------------------------------------------- radio_rx
\* a rejected frame: the handler returns and nothing has changed
Dropped ==
    /\ Returns
    /\ to_radio' = << >>
    /\ to_app' = << >>
    /\ UNCHANGED <<counters, tables, hist>>

\* the frame's length does not fit its protocol ID
InvalidLength(data) ==
    \/ At(data, PKT_PROT_ID) = DATA_PROTO /\ Len(data) < DATA_PKT_MIN_LENGTH
    \/ At(data, PKT_PROT_ID) = SINK_PROTO /\ Len(data) # SINK_PKT_LENGTH
    \/ At(data, PKT_PROT_ID) = NOTI_PROTO /\ Len(data) # RECV_NOTI_LENGTH

\* FromSelf that looks at the source only
FromSelf_SourceOnly(data) == At(data, PKT_SRC) = addr

\* FromSelf looking at the sender only
FromSelf_SenderOnly(data) == At(data, PKT_SNDR) = addr

\* the frame was sent or originated by this node
FromSelf(data) == At(data, PKT_SNDR) = addr \/ At(data, PKT_SRC) = addr

\* the handler run is remembered by the place it ended at: "invalid" for
\* a message that is no PDU of bytes, a bad CRC, an unknown protocol ID or
\* a wrong length
Ended(op, at) == last' = [op |-> op, at |-> at]

\* _radio_rx(data, meta_dict)
radio_rx_locked(data, meta_dict) ==
    IF ~CrcOk(meta_dict) THEN Ended("from_radio", "invalid") /\ Dropped
    ELSE IF Len(data) = 0
    THEN \* data[PKT_PROT_ID] of an empty tuple
         /\ Ended("from_radio", "empty")
         /\ Raises("IndexError")
         /\ to_radio' = << >>
         /\ to_app' = << >>
         /\ UNCHANGED <<counters, tables, hist>>
    ELSE IF At(data, PKT_PROT_ID) \notin {DATA_PROTO, SINK_PROTO, NOTI_PROTO}
    THEN Ended("from_radio", "invalid") /\ Dropped
    ELSE IF InvalidLength(data) THEN Ended("from_radio", "invalid") /\ Dropped
    ELSE IF FromSelf(data) THEN Ended("from_radio", "self") /\ Dropped
    ELSE IF At(data, PKT_PROT_ID) = SINK_PROTO
    THEN Ended("from_radio", "sink") /\ handle_sink_packet(data)
    ELSE IF At(data, PKT_PROT_ID) = DATA_PROTO
    THEN Ended("from_radio", "data") /\ handle_data_packet(data, meta_dict)
    ELSE Ended("from_radio", "noti") /\ handle_receive_notification(data)

\* radio_rx(msg) for a PDU of bytes `data` with metadata `meta`
radio_rx_pdu(data, meta) ==
    /\ UNCHANGED <<conf, now, appSent>>
    /\ radio_rx_locked(data, MetaDict(meta))

\* radio_rx(msg) for a message that is no PDU, or whose data is no
\* u8vector: ignored before the lock is taken
radio_rx_other ==
    /\ UNCHANGED <<conf, now, appSent>>
    /\ Ended("from_radio", "invalid")
    /\ Dropped

radio_rx(pdus) ==
    \/ radio_rx_other
    \/ \E pdu \in pdus : radio_rx_pdu(pdu[1], pdu[2])

\* ------------------------------------------------------------ app_rx
\* AppDataPkt with the TTL R, whatever the distance to the sink
AppDataPkt_TtlR(payload, cnt) ==
    <<DATA_PROTO, addr, addr, cnt, sinkTable[SINK_ADDR].min_dx_to_sink,
      SINK_ADDR, R>> \o payload

\* the data packet built for a payload of the application
AppDataPkt(payload, cnt) ==
    <<DATA_PROTO, addr, addr, cnt, sinkTable[SINK_ADDR].min_dx_to_sink,
      SINK_ADDR, sinkTable[SINK_ADDR].min_dx_to_sink + R>> \o payload

\* send_pkt_radio numbering the packet with the count after the increment
send_pkt_radio_Incremented(payload, cnt) ==
    IF SINK_ADDR \notin DOMAIN sinkTable
    THEN << >>
    ELSE << AppDataPkt(payload, (cnt + 1) % 256) >>

\* what send_pkt_radio publishes on to_radio
send_pkt_radio(payload, cnt) ==
    IF SINK_ADDR \notin DOMAIN sinkTable
    THEN << >>
    ELSE << AppDataPkt(payload, cnt) >>

\* app_rx(msg) for a PDU of bytes `payload`: sent, or dropped, and counted
app_rx_pdu(payload) ==
    /\ UNCHANGED <<conf, now, tables, hist,
                   broadcast_interval, sequence_number, sink_pkt_xmit_time>>
    /\ pkt_cnt < MaxPkt
    /\ Ended("from_app", "sent")
    /\ Returns
    /\ to_app' = << >>
    /\ to_radio' = send_pkt_radio(payload, pkt_cnt)
    /\ appSent' = appSent + Len(to_radio')
    /\ pkt_cnt' = (pkt_cnt + 1) % 256

\* app_rx(msg) for a message that is no PDU, or whose data is no u8vector
app_rx_other ==
    /\ UNCHANGED <<conf, now, appSent>>
    /\ Ended("from_app", "invalid")
    /\ Dropped

app_rx(payloads) ==
    \/ app_rx_other
    \/ \E payload \in payloads : app_rx_pdu(payload)

\* ----------------------------------------------------------- ctrl_rx

\* SinkPkt carrying the hop count heard instead of the node's own
SinkPkt_HopsHeard(a, seq_num, hop_count) ==
    <<SINK_PROTO, addr, a, seq_num, hop_count - 1>>

\* a sink packet sent under its originator's address
SinkPkt_AsOriginator(a, seq_num, hop_count) == <<SINK_PROTO, a, a, seq_num, hop_count>>

\* the bytes of a sink packet
SinkPkt(a, seq_num, hop_count) == <<SINK_PROTO, addr, a, seq_num, hop_count>>

\* BeaconMayFire whatever the broadcast interval
BeaconMayFire_AnyInterval == sequence_number < MaxBeacon

\* random.random() may make the beacon test succeed: r = 0 always does
BeaconMayFire ==
    /\ broadcast_interval[1] > 0
    /\ sequence_number < MaxBeacon

\* ... or fail: some r < 1 has now - sink_pkt_xmit_time < interval * 2 * r
BeaconMaySkip ==
    \/ broadcast_interval[1] <= 0
    \/ /\ sink_pkt_xmit_time # NoTime
       /\ (now - sink_pkt_xmit_time) * Pow5(broadcast_interval[2])
              < 2 * broadcast_interval[1]

\* a sink-table entry due for its forward
SinkReady(aSinkVal) == aSinkVal.scheduled /\ now >= aSinkVal.forwarding_time

\* the record the tick builds after forwarding a sink packet
CommittedSinkVal(aSinkVal) ==
    SinkVal(aSinkVal.highest_rcvd_seq_num, aSinkVal.temp_min_dx_to_sink + 1,
            aSinkVal.last_time_heard, 0, FALSE, aSinkVal.temp_min_dx_to_sink)

\* the sink table after the forward of entry k: the record built is bound
\* to the local name aSinkVal only, the table keeps the entry it had
SinkTableAfterForward(t, k) == t

\* the sink packets sent while visiting the sink table in the given order
RECURSIVE SinkLoop(_, _, _)
SinkLoop(order, tbl, out) ==
    IF order = << >> THEN [tbl |-> tbl, out |-> out]
    ELSE LET k == Head(order)
             aSinkVal == tbl[k]
         IN  IF SinkReady(aSinkVal)
             THEN SinkLoop(Tail(order), SinkTableAfterForward(tbl, k),
                           Append(out, SinkPkt(k, aSinkVal.highest_rcvd_seq_num,
                                               aSinkVal.min_dx_to_sink)))
             ELSE SinkLoop(Tail(order), tbl, out)

\* DataReady without the test of scheduled
DataReady_Unscheduled(aDataPacketVal) ==
    /\ aDataPacketVal.duplicates <= Ndupl
    /\ now >= aDataPacketVal.forwarding_time

\* a data-packet-table entry due for its forward
DataReady(aDataPacketVal) ==
    /\ aDataPacketVal.scheduled
    /\ aDataPacketVal.duplicates <= Ndupl
    /\ now >= aDataPacketVal.forwarding_time

\* ForwardedDataPktVal leaving the entry as it was
ForwardedDataPktVal_NotStored(aDataPacketVal) == aDataPacketVal

\* the entry after its forward
ForwardedDataPktVal(aDataPacketVal) ==
    DataPktVal(None, aDataPacketVal.last_time_heard, 0, FALSE,
               aDataPacketVal.duplicates)

\* the data packets sent while visiting the data-packet table in the given
\* order; len(None) raises and ends the visit
RECURSIVE DataLoop(_, _, _, _)
DataLoop(order, tbl, out, sent) ==
    IF order = << >> THEN [tbl |-> tbl, out |-> out, sent |-> sent, err |-> "none"]
    ELSE LET k == Head(order)
             aDataPacketVal == tbl[k]
         IN  IF DataReady(aDataPacketVal)
             THEN IF aDataPacketVal.data = None
                  THEN [tbl |-> tbl, out |-> out, sent |-> sent, err |-> "TypeError"]
                  ELSE DataLoop(Tail(order),
                                [tbl EXCEPT ![k] = ForwardedDataPktVal(aDataPacketVal)],
                                Append(out, aDataPacketVal.data),
                                Append(sent, k))
             ELSE DataLoop(Tail(order), tbl, out, sent)

\* the keys an aging scan removes
Expired(t, lifetime) == { k \in DOMAIN t : now - t[k].last_time_heard > lifetime }

check_sink_neighbor_table(t) == Remove(t, Expired(t, Slt))

check_sink_table(t) == Remove(t, Expired(t, Slt))

check_data_packet_table(t) == Remove(t, Expired(t, Plt))

\* the keys a tick has forwarded, as a set
Sent(sent) == { sent[i] : i \in 1..Len(sent) }

\* the forwards counted per key for the life of its entry
CountLife(f, sent) ==
    [k \in DOMAIN f |-> IF k \in Sent(sent) THEN f[k] + 1 ELSE f[k]]

\* ctrl_rx(msg), the keys of the sink table and of the data-packet table
\* walked in one of the orders given
ctrl_rx_in(sorders, dorders) ==
    /\ UNCHANGED <<conf, now, pkt_cnt, broadcast_interval, appSent>>
    /\ Ended("ctrl_in", "tick")
    /\ to_app' = << >>
    /\ \E fire \in BOOLEAN, sorder \in sorders, dorder \in dorders :
          LET beacon == addr = SINK_ADDR /\ fire
              sl == IF addr = SINK_ADDR
                    THEN [tbl |-> sinkTable,
                          out |-> IF fire THEN << SinkPkt(addr, sequence_number, 0) >>
                                  ELSE << >>]
                    ELSE SinkLoop(sorder, sinkTable, << >>)
              dl == DataLoop(dorder, dataPacketTable, << >>, << >>)
          IN  /\ addr = SINK_ADDR => IF fire THEN BeaconMayFire ELSE BeaconMaySkip
              /\ addr # SINK_ADDR => fire
              /\ sequence_number' = IF beacon THEN (sequence_number + 1) % 256
                                    ELSE sequence_number
              /\ sink_pkt_xmit_time' = IF sl.out # << >> THEN now ELSE sink_pkt_xmit_time
              /\ to_radio' = sl.out \o dl.out
              /\ raised' = dl.err
              /\ forwarded' = forwarded \cup Sent(dl.sent)
              /\ IF dl.err = "none"
                 THEN /\ sinkNeighborTable' = check_sink_neighbor_table(sinkNeighborTable)
                      /\ sinkTable' = check_sink_table(sl.tbl)
                      /\ dataPacketTable' = check_data_packet_table(dl.tbl)
                      /\ fwdLife' = Remove(CountLife(fwdLife, dl.sent),
                                           Expired(dl.tbl, Plt))
                 ELSE /\ sinkNeighborTable' = sinkNeighborTable
                      /\ sinkTable' = sl.tbl
                      /\ dataPacketTable' = dl.tbl
                      /\ fwdLife' = CountLife(fwdLife, dl.sent)

\* ctrl_rx(msg), the tables walked in any order of their keys
ctrl_rx == ctrl_rx_in(Orders(DOMAIN sinkTable), Orders(DOMAIN dataPacketTable))

\* the order in which a dictionary hands out a given set of keys: one
\* order, the same at every tick
DictOrder(S) == CHOOSE o \in Orders(S) : TRUE

\* ctrl_rx(msg), the tables walked in the dictionaries' own order
ctrl_rx_in_order ==
    ctrl_rx_in({ DictOrder(DOMAIN sinkTable) }, { DictOrder(DOMAIN dataPacketTable) })

\* ------------------------------------------------------ input domains
\* frames every handler rejects before it reads an address
Malformed ==
    { << >>, <<3>>, <<DATA_PROTO>>, <<3, 2, 2, 0, 0>>,
      <<DATA_PROTO, 2, 2, 0, 0, 0>>, <<SINK_PROTO, 2, 0, 0>>,
      <<NOTI_PROTO, 0, 2, 0, 0>> }

\* the sink whose packets the node hears: sink 0 for a forwarder, another
\* sink for the node that is sink 0 itself
HeardSink == IF addr = SINK_ADDR THEN MaxAddr ELSE SINK_ADDR

\* the source of the data packets the node hears, and a sink it never hears
Source == MaxAddr + 1

UnknownSink == MaxAddr + 2

\* sink packets heard from the sink itself
SinkFrames ==
    { <<SINK_PROTO, HeardSink, HeardSink, sn, hc>> : sn \in 0..MaxSeq, hc \in 0..MaxHc }

\* the first beacon of the sink heard from the sink itself
Beacons == { <<SINK_PROTO, HeardSink, HeardSink, 0, 0>> }

Payloads == { <<170>> }

\* data packets of the source on their way to the heard sink
TransitFrames ==
    { <<DATA_PROTO, Source, Source, sn, hc, HeardSink, ttl>> \o p :
        sn \in 0..MaxSeq, hc \in 1..MaxHc + 1, ttl \in 1..MaxTtl, p \in Payloads }

\* data packets for this node, and for a sink never heard
OtherDataFrames ==
    { <<DATA_PROTO, Source, Source, 0, 1, dest, MaxTtl>> \o p :
        dest \in {addr, UnknownSink}, p \in Payloads }

\* receive notifications sent by the heard sink
NotiFrames == { <<NOTI_PROTO, HeardSink, Source, sn>> : sn \in 0..MaxSeq }

\* frames of each kind sent by this node, or originated by it
SelfFrames ==
    { <<SINK_PROTO, addr, HeardSink, 0, 0>>,
      <<DATA_PROTO, addr, Source, 0, 1, HeardSink, MaxTtl, 170>>,
      <<DATA_PROTO, Source, addr, 0, 1, HeardSink, MaxTtl, 170>>,
      <<NOTI_PROTO, addr, Source, 0>>,
      <<NOTI_PROTO, HeardSink, addr, 0>>,
      <<3, addr, addr, 0, 0>> }

\* the frames a node delivers to its application
ForMe(frames) ==
    { f \in frames : /\ Len(f) >= DATA_PKT_MIN_LENGTH
                     /\ At(f, PKT_PROT_ID) = DATA_PROTO
                     /\ At(f, DATA_PKT_DEST) = addr }

\* PDUs with an empty metadata dictionary, some with a bad CRC, and the
\* frames for this node also with a CRC_OK among other items and with
\* metadata that is no dictionary
Pdus(frames) ==
    { <<f, EmptyMeta>> : f \in frames }
        \cup { <<f, CrcMeta(FALSE)>> : f \in { << >>, <<3>> } \cup Beacons \cup NotiFrames }
        \cup { <<f, m>> : f \in ForMe(frames),
                          m \in { NotADict, Dict({ <<"CRC_OK", TRUE>>, <<"snr", TRUE>> }) } }

\* ------------------------------------------------------ specifications
\* a handler run taken as a whole, the lock left aside
Serial == UNCHANGED threads

\* every kind of frame
AllPdus ==
    Pdus(Malformed \cup SelfFrames \cup SinkFrames \cup TransitFrames
             \cup OtherDataFrames \cup NotiFrames)

Next ==
    \/ Advance(MaxTime) /\ Serial
    \/ radio_rx(AllPdus) /\ Serial
    \/ app_rx(Payloads) /\ Serial
    \/ ctrl_rx /\ Serial

Spec == Init /\ [][Next]_vars

\* a sink or a forwarder and the sink packets it hears
Beaconing == broadcast_interval = Rat(InitialBroadcastInterval)

InitSink == Init /\ Beaconing /\ Ndupl = MaxNdupl

SinkPdus == Pdus(Malformed \cup SelfFrames \cup SinkFrames)

NextSink ==
    \/ Advance(MaxTime) /\ Serial
    \/ radio_rx(SinkPdus) /\ Serial
    \/ app_rx(Payloads) /\ Serial
    \/ ctrl_rx /\ Serial

SpecSink == InitSink /\ [][NextSink]_vars

\* a sink, with its beacons on or off, and the sink packets of another sink
InitBeacon == Init /\ addr = SINK_ADDR /\ Ndupl = MaxNdupl

BeaconPdus == Pdus(SinkFrames)

NextBeacon ==
    \/ Advance(MaxTime) /\ Serial
    \/ radio_rx(BeaconPdus) /\ Serial
    \/ pkt_cnt < MaxDataPkt /\ app_rx(Payloads) /\ Serial
    \/ ctrl_rx /\ Serial

SpecBeacon == InitBeacon /\ [][NextBeacon]_vars

\* node B of the two-node scenario: address 1, sink 0, debug mode
InitTwoNode == InitSink /\ addr = 1 /\ debug_stderr

SpecTwoNode == InitTwoNode /\ [][NextSink]_vars

\* the last sequence number before the sink's counter wraps to 0
LastSeq == 255

\* a forwarder in debug mode that hears the sink's packets, the first ones
\* and the last before its counter wraps, directly and relayed from up to
\* two hops away
GradientFrames ==
    { <<SINK_PROTO, HeardSink, HeardSink, sn, hc>> :
        sn \in 0..MaxSeq \cup { LastSeq }, hc \in 0..MaxHc + 1 }

NextGradient ==
    \/ Advance(MaxTime) /\ Serial
    \/ radio_rx(Pdus(GradientFrames)) /\ Serial
    \/ ctrl_rx /\ Serial

SpecGradient == InitTwoNode /\ [][NextGradient]_vars

\* a forwarder (address 1, sink 0, debug mode) and the copies of one data
\* packet, and its receive notification, heard once the forwarder knows
\* its distance to the sink
InitData == Init /\ Beaconing /\ addr = 1 /\ debug_stderr

OnePacket(frames) == { f \in frames : At(f, PKT_SN) = 0 }

DataPdus ==
    Pdus(Malformed \cup SelfFrames \cup Beacons \cup OnePacket(TransitFrames)
             \cup OtherDataFrames \cup OnePacket(NotiFrames))

NextData ==
    \/ Advance(MaxDataTime) /\ Serial
    \/ radio_rx(DataPdus) /\ Serial
    \/ pkt_cnt < MaxDataPkt /\ app_rx(Payloads) /\ Serial
    \/ ctrl_rx /\ Serial

SpecData == InitData /\ [][NextData]_vars

\* the same forwarder with the largest Ndupl, and the copies and receive
\* notifications of two data packets heard within a second
InitNoti == InitData /\ Ndupl = MaxNdupl

NotiPdus == Pdus(Beacons \cup TransitFrames \cup NotiFrames)

NextNoti ==
    \/ Advance(MaxNotiTime) /\ Serial
    \/ radio_rx(NotiPdus) /\ Serial
    \/ pkt_cnt < MaxDataPkt /\ app_rx(Payloads) /\ Serial
    \/ ctrl_rx /\ Serial

SpecNoti == InitNoti /\ [][NextNoti]_vars

\* a forwarder that hears two packets of one source, their copies and
\* their notifications early enough for every forwarding time drawn to
\* come within the horizon, while the strobe keeps ticking and time passes
MaxLiveTime == 3

LiveFrames ==
    Beacons
        \cup { f \in TransitFrames : At(f, PKT_HC) = 1 /\ At(f, DATA_PKT_TTL) = MaxTtl }
        \cup NotiFrames

NextLive ==
    \/ Advance(MaxLiveTime) /\ Serial
    \/ now + Tmax <= MaxLiveTime /\ radio_rx(Pdus(LiveFrames)) /\ Serial
    \/ ctrl_rx_in_order /\ Serial

SpecLive ==
    /\ InitNoti
    /\ [][NextLive]_vars
    /\ WF_vars(Advance(MaxLiveTime) /\ Serial)
    /\ WF_vars(ctrl_rx_in_order /\ Serial)

\* a node in debug mode, the sink or a forwarder, that hears its own frames
\* and its own beacon relayed by a neighbour among the others' frames
EchoFrames == { <<SINK_PROTO, HeardSink, addr, 0, 1>> }

InitSelf == InitSink /\ debug_stderr

NextSelf ==
    \/ Advance(MaxDataTime) /\ Serial
    \/ radio_rx(Pdus(SelfFrames \cup EchoFrames \cup Beacons
                         \cup OnePacket(TransitFrames) \cup OtherDataFrames)) /\ Serial
    \/ pkt_cnt < MaxDataPkt /\ app_rx(Payloads) /\ Serial
    \/ ctrl_rx /\ Serial

SpecSelf == InitSelf /\ [][NextSelf]_vars

\* the largest value of a byte of a packet
LastByte == 255

\* a forwarder in debug mode that hears the sink's first packet at hop
\* count 0 and at the largest hop counts a byte holds, and is handed
\* payloads by its application
FarFrames ==
    { <<SINK_PROTO, HeardSink, HeardSink, 0, hc>> :
        hc \in { 0 } \cup (LastByte - R)..LastByte }

NextBytes ==
    \/ Advance(MaxTime) /\ Serial
    \/ radio_rx(Pdus(FarFrames)) /\ Serial
    \/ pkt_cnt < MaxDataPkt /\ app_rx(Payloads) /\ Serial
    \/ ctrl_rx /\ Serial

SpecBytes == InitTwoNode /\ [][NextBytes]_vars

\* ------------------------------------------------- the handlers' threads
\* Each handler runs on a thread of its own: "idle" outside the handler,
\* "waiting" at its "with self.lock", "locked" holding the lock before the
\* handler's body, "nested_wait" at the "with self.lock" of send_sink_pkt,
\* "nested" inside it, "ran" after the body and before the lock is left.
Holding == { "locked", "nested_wait", "nested", "ran" }

MaxLockTime == 3

\* a lock that its owner cannot take again
CanAcquire_NonReentrant(t) == lock_owner = NoThread

\* threading.RLock(): free, or taken again by the thread that owns it
CanAcquire(t) == lock_owner = NoThread \/ lock_owner = t

\* a handler is called: from_radio parses its message first, the two others
\* go to the lock at once
Call(t) ==
    /\ pc[t] = "idle"
    /\ t = "from_app" => pkt_cnt < MaxDataPkt
    /\ pc' = [pc EXCEPT ![t] = "waiting"]
    /\ UNCHANGED <<conf, now, counters, tables, to_radio, to_app, raised, last,
                   hist, appSent, lock_owner, lock_count>>

\* radio_rx returns before the lock on a message that is not a PDU of bytes
RadioReject ==
    /\ pc["from_radio"] = "waiting"
    /\ radio_rx_other
    /\ pc' = [pc EXCEPT !["from_radio"] = "idle"]
    /\ UNCHANGED <<lock_owner, lock_count>>

\* "with self.lock:" entered
Acquire(t) ==
    /\ pc[t] = "waiting"
    /\ CanAcquire(t)
    /\ pc' = [pc EXCEPT ![t] = "locked"]
    /\ lock_owner' = t
    /\ lock_count' = lock_count + 1
    /\ UNCHANGED <<conf, now, counters, tables, to_radio, to_app, raised, last,
                   hist, appSent>>

\* the sink packets of one run of ctrl_rx, each sent by send_sink_pkt
SinkPktsSent(out) == { i \in 1..Len(out) : out[i][1] = SINK_PROTO }

\* the body of the handler, run under the lock; a tick that sent a sink
\* packet passes through the lock of send_sink_pkt
Run(t) ==
    /\ pc[t] = "locked"
    /\ \/ t = "from_radio" /\ \E pdu \in Pdus(Beacons) : radio_rx_pdu(pdu[1], pdu[2])
       \/ t = "from_app" /\ app_rx(Payloads)
       \/ t = "ctrl_in" /\ ctrl_rx
    /\ pc' = [pc EXCEPT ![t] = IF t = "ctrl_in" /\ SinkPktsSent(to_radio') # {}
                                  THEN "nested_wait" ELSE "ran"]
    /\ UNCHANGED <<lock_owner, lock_count>>

\* send_sink_pkt: "with self.lock:" around the write of sink_pkt_xmit_time
NestedAcquire ==
    /\ pc["ctrl_in"] = "nested_wait"
    /\ CanAcquire("ctrl_in")
    /\ pc' = [pc EXCEPT !["ctrl_in"] = "nested"]
    /\ lock_owner' = "ctrl_in"
    /\ lock_count' = lock_count + 1
    /\ UNCHANGED <<conf, now, counters, tables, to_radio, to_app, raised, last,
                   hist, appSent>>

NestedRelease ==
    /\ pc["ctrl_in"] = "nested"
    /\ pc' = [pc EXCEPT !["ctrl_in"] = "ran"]
    /\ lock_count' = lock_count - 1
    /\ lock_owner' = IF lock_count = 1 THEN NoThread ELSE lock_owner
    /\ UNCHANGED <<conf, now, counters, tables, to_radio, to_app, raised, last,
                   hist, appSent>>

\* the "with self.lock:" of the handler left, by a return or by an exception
Release(t) ==
    /\ pc[t] = "ran"
    /\ pc' = [pc EXCEPT ![t] = "idle"]
    /\ lock_count' = lock_count - 1
    /\ lock_owner' = IF lock_count = 1 THEN NoThread ELSE lock_owner
    /\ UNCHANGED <<conf, now, counters, tables, to_radio, to_app, raised, last,
                   hist, appSent>>

InitLock == Init /\ Beaconing /\ Ndupl = MaxNdupl /\ debug_stderr

NextLock ==
    \/ Advance(MaxLockTime) /\ Serial
    \/ \E t \in Threads : Call(t)
    \/ RadioReject
    \/ \E t \in Threads : Acquire(t)
    \/ \E t \in Threads : Run(t)
    \/ NestedAcquire
    \/ NestedRelease
    \/ \E t \in Threads : Release(t)

SpecLock == InitLock /\ [][NextLock]_vars

\* ------------------------------------------------------------- claims
\* what the claims read off a state or a step
NoOutput == to_radio' = << >> /\ to_app' = << >>

\* the data-packet key (source, destination sink, sequence number) of a
\* DATA packet's bytes
KeyOfPkt(p) == <<p[3], p[6], p[4]>>

\* the positions of to_radio at which the DATA packet of key k was sent
Forwards(out, k) == { i \in 1..Len(out) : out[i][1] = 0 /\ KeyOfPkt(out[i]) = k }

\* C1: in the tick of a node that is not the sink, every sink-table entry
\* that is scheduled with now >= forwarding_time is, after the tick has
\* sent its SINK forward, stored with scheduled = false, forwarding_time = 0
\* and min_hops_to_sink = tentative_min_hops + 1 (unless aged out).
C1_ForwardCommitsSinkEntry ==
    [][ (ctrl_rx /\ addr # SINK_ADDR) =>
            \A k \in DOMAIN sinkTable :
                ( /\ sinkTable[k].scheduled
                  /\ now >= sinkTable[k].forwarding_time
                  /\ k \in DOMAIN sinkTable' ) =>
                    /\ ~sinkTable'[k].scheduled
                    /\ sinkTable'[k].forwarding_time = 0
                    /\ sinkTable'[k].min_dx_to_sink
                           = sinkTable[k].temp_min_dx_to_sink + 1 ]_vars

\* C2 as stated: over the whole run, a tick never sends the forward of a
\* key (src, dest, seq) it has sent before.
C2_AtMostOnceEver ==
    [][ ctrl_rx => \A k \in forwarded : Forwards(to_radio', k) = {} ]_vars

\* C2: while the data-packet-table entry of a key (src, dest, seq) stays
\* in the table, from its creation to its purge, its forward is sent at
\* most once.
C2_AtMostOncePerEntry ==
    /\ DOMAIN fwdLife = DOMAIN dataPacketTable
    /\ \A k \in DOMAIN fwdLife : fwdLife[k] <= 1

\* an entry forwarded once, scheduled again by a later copy, and a tick
\* that found it and sent nothing
C2_Witness ==
    /\ last.at = "tick"
    /\ to_radio = << >>
    /\ \E k \in DOMAIN dataPacketTable :
          fwdLife[k] = 1 /\ dataPacketTable[k].scheduled

\* C3 as stated: every scheduled data-packet-table entry has
\* duplicates < Ndupl, whatever Ndupl.
C3_ScheduledBelowNdupl ==
    \A k \in DOMAIN dataPacketTable :
        dataPacketTable[k].scheduled => dataPacketTable[k].duplicates < Ndupl

\* C3: every scheduled data-packet-table entry has duplicates < Ndupl, or
\* is, with Ndupl = 0, an entry of which no duplicate was heard; an entry
\* with duplicates >= Ndupl >= 1 is unscheduled.
C3_ScheduledBelowNduplOrFresh ==
    \A k \in DOMAIN dataPacketTable :
        dataPacketTable[k].scheduled =>
            \/ dataPacketTable[k].duplicates < Ndupl
            \/ Ndupl = 0 /\ dataPacketTable[k].duplicates = 0

\* an entry suppressed by its Ndupl-th duplicate, its bytes still held
C3_Witness ==
    \E k \in DOMAIN dataPacketTable :
        /\ Ndupl >= 1
        /\ dataPacketTable[k].duplicates = Ndupl
        /\ ~dataPacketTable[k].scheduled
        /\ dataPacketTable[k].data # None

\* C4: a valid NOTI [NOTI, sender, src, seq] whose key (src, sender, seq)
\* is in the data-packet table clears that entry's bytes, sets its
\* forwarding_time to 0 and unschedules it, keeps its duplicates and
\* last_heard, changes no other entry, no other table and no counter, and
\* sends nothing; with the key absent it changes nothing.
C4_NotiCancels ==
    [][ \A f \in NotiFrames :
            radio_rx_pdu(f, EmptyMeta) =>
                LET key == <<f[3], f[2], f[4]>>
                IN  /\ dataPacketTable' =
                          IF key \in DOMAIN dataPacketTable
                          THEN [dataPacketTable EXCEPT ![key] =
                                   [data |-> None, forwarding_time |-> 0,
                                    scheduled |-> FALSE,
                                    duplicates |-> @.duplicates,
                                    last_time_heard |-> @.last_time_heard]]
                          ELSE dataPacketTable
                    /\ UNCHANGED <<sinkNeighborTable, sinkTable, counters>>
                    /\ NoOutput
                    /\ raised' = "none" ]_vars

\* a NOTI has cancelled the pending forward of one packet while the
\* forward of another is still pending
C4_Witness ==
    /\ last.at = "noti"
    /\ \E k1, k2 \in DOMAIN dataPacketTable :
          /\ k1 # k2
          /\ dataPacketTable[k1].data = None
          /\ fwdLife[k1] = 0
          /\ dataPacketTable[k1].duplicates > 0
          /\ dataPacketTable[k2].scheduled
          /\ dataPacketTable[k2].data # None

\* C5: a data-packet-table entry that is unscheduled (suppressed,
\* cancelled or forwarded) stays unscheduled as long as it is in the table.
C5_TerminalStaysUnscheduled ==
    [][ \A k \in (DOMAIN dataPacketTable) \cap (DOMAIN dataPacketTable') :
            ~dataPacketTable[k].scheduled => ~dataPacketTable'[k].scheduled ]_vars

\* C6: a from_radio frame, of any protocol ID, whose Sender or Source
\* field is the node's own address changes no table and no counter,
\* schedules nothing and sends nothing on to_radio or to_app; as it leaves
\* the state as it was, no later tick acts on it.
C6_OwnFramesIgnored ==
    [][ \A f \in SelfFrames :
            ( /\ f[2] = addr \/ f[3] = addr
              /\ radio_rx_pdu(f, EmptyMeta) ) =>
                /\ UNCHANGED <<tables, counters>>
                /\ NoOutput
                /\ raised' = "none" ]_vars

\* a well-formed frame of the node's own was dropped while the node knew
\* its sink and had a forward pending
C6_Witness ==
    /\ last.at = "self"
    /\ sinkTable # EmptyTable
    /\ \E k \in DOMAIN dataPacketTable :
          dataPacketTable[k].scheduled /\ dataPacketTable[k].data # None

\* the frames C7 is about: a bad CRC, no protocol ID among DATA, SINK and
\* NOTI, or a length that does not fit the protocol ID
C7_Rejected(data, meta) ==
    \/ \E item \in MetaDict(meta) : item[1] = "CRC_OK" /\ ~item[2]
    \/ Len(data) = 0
    \/ data[1] \notin {0, 1, 2}
    \/ data[1] = 0 /\ Len(data) < 7
    \/ data[1] = 1 /\ Len(data) # 5
    \/ data[1] = 2 /\ Len(data) # 4

\* C7: for every from_radio byte vector, the empty one included, with a
\* bad CRC, a protocol ID outside {0, 1, 2} or a length that does not fit
\* its protocol ID, the handler raises nothing, leaves the three tables
\* and the counters unchanged and sends nothing.
C7_RejectedIsSilentNoOp ==
    [][ \A pdu \in SinkPdus :
            (C7_Rejected(pdu[1], pdu[2]) /\ radio_rx_pdu(pdu[1], pdu[2])) =>
                /\ raised' = "none"
                /\ UNCHANGED <<tables, counters>>
                /\ NoOutput ]_vars

\* C8: in every state every entry of the three tables has
\* last_heard <= now, and right after every tick every entry left in the
\* sink-neighbor table and in the sink table has now - last_heard <= Slt
\* and every entry left in the data-packet table has
\* now - last_heard <= Plt.
C8_AgesBounded ==
    [][ /\ \A k \in DOMAIN sinkNeighborTable' :
               sinkNeighborTable'[k].last_time_heard <= now'
        /\ \A k \in DOMAIN sinkTable' : sinkTable'[k].last_time_heard <= now'
        /\ \A k \in DOMAIN dataPacketTable' :
               dataPacketTable'[k].last_time_heard <= now'
        /\ ctrl_rx =>
               /\ \A k \in DOMAIN sinkNeighborTable' :
                      now' - sinkNeighborTable'[k].last_time_heard <= Slt
               /\ \A k \in DOMAIN sinkTable' :
                      now' - sinkTable'[k].last_time_heard <= Slt
               /\ \A k \in DOMAIN dataPacketTable' :
                      now' - dataPacketTable'[k].last_time_heard <= Plt ]_vars

\* C9: a tick that finds an entry both expired (now - last_heard above its
\* lifetime) and scheduled with now >= forwarding_time sends the entry's
\* forward exactly once and purges the entry: of the data-packet table on
\* every node, of the sink table on a node that forwards sink packets.
C9_ForwardBeforePurge ==
    [][ ctrl_rx =>
            /\ \A k \in DOMAIN dataPacketTable :
                   ( /\ now - dataPacketTable[k].last_time_heard > Plt
                     /\ dataPacketTable[k].scheduled
                     /\ now >= dataPacketTable[k].forwarding_time ) =>
                       /\ k \notin DOMAIN dataPacketTable'
                       /\ Cardinality(Forwards(to_radio', k)) = 1
            /\ \A k \in DOMAIN sinkTable :
                   ( /\ addr # SINK_ADDR
                     /\ now - sinkTable[k].last_time_heard > Slt
                     /\ sinkTable[k].scheduled
                     /\ now >= sinkTable[k].forwarding_time ) =>
                       /\ k \notin DOMAIN sinkTable'
                       /\ Cardinality({ i \in 1..Len(to_radio') :
                                          /\ to_radio'[i][1] = 1
                                          /\ to_radio'[i][3] = k }) = 1 ]_vars

\* the entry of sink 0 as the beacon [1, 0, 0, 0, 0] leaves it
C10_AfterBeacon(v) ==
    /\ v.highest_rcvd_seq_num = 0
    /\ v.temp_min_dx_to_sink = 0
    /\ v.scheduled

\* the two-node scenario with the forward hopCount: node B hears the beacon with
\* empty tables and creates the scheduled entry of sink 0, and the tick at
\* or after the entry's forwarding time sends exactly the bytes
\* <<1, 1, 0, 0, hopCount>> and leaves the entry with min_hops = 1
C10_Gradient(hopCount) ==
    /\ ( /\ sinkNeighborTable = EmptyTable
         /\ sinkTable = EmptyTable
         /\ dataPacketTable = EmptyTable
         /\ radio_rx_pdu(<<1, 0, 0, 0, 0>>, EmptyMeta) ) =>
           /\ DOMAIN sinkTable' = {0}
           /\ C10_AfterBeacon(sinkTable'[0])
           /\ sinkTable'[0].forwarding_time = now + small_backoff
    /\ ( /\ ctrl_rx
         /\ DOMAIN sinkTable = {0}
         /\ C10_AfterBeacon(sinkTable[0])
         /\ sinkTable[0].min_dx_to_sink = 1
         /\ now >= sinkTable[0].forwarding_time ) =>
           /\ to_radio' = << <<1, 1, 0, 0, hopCount>> >>
           /\ 0 \in DOMAIN sinkTable' => sinkTable'[0].min_dx_to_sink = 1

C11_Copy(f) ==
    /\ f[6] \in DOMAIN sinkTable
    /\ KeyOfPkt(f) \in DOMAIN dataPacketTable
    /\ f[7] - 1 >= sinkTable[f[6]].min_dx_to_sink
    /\ f[5] <= sinkTable[f[6]].min_dx_to_sink

\* duplicate suppression: every such copy adds one to the entry's
\* duplicates, an entry with duplicates >= Ndupl is unscheduled, and a tick
\* sends no forward of an entry with duplicates >= Ndupl
C11_Suppression ==
    /\ \A f \in OnePacket(TransitFrames) :
           (C11_Copy(f) /\ radio_rx_pdu(f, EmptyMeta)) =>
               dataPacketTable'[KeyOfPkt(f)].duplicates
                   = dataPacketTable[KeyOfPkt(f)].duplicates + 1
    /\ \A k \in DOMAIN dataPacketTable' :
           dataPacketTable'[k].duplicates >= Ndupl => ~dataPacketTable'[k].scheduled
    /\ ctrl_rx =>
           \A k \in DOMAIN dataPacketTable :
               dataPacketTable[k].duplicates >= Ndupl => Forwards(to_radio', k) = {}

\* C11 as stated: for every Ndupl, once a data-packet-table entry has
\* heard Ndupl further copies with HopCount <= my_hops and enough TTL it
\* has duplicates = Ndupl and scheduled = false, and no later tick sends
\* its forward while it is in the table.
C11_SuppressedAnyNdupl == [][C11_Suppression]_vars

\* C11: with Ndupl >= 1, once a data-packet-table entry has heard Ndupl
\* further copies with HopCount <= my_hops and enough TTL it has
\* duplicates = Ndupl and scheduled = false, and no later tick sends its
\* forward while it is in the table.
C11_SuppressedPositiveNdupl == [][Ndupl >= 1 => C11_Suppression]_vars

\* a tick has passed over a suppressed entry that holds its bytes and whose
\* forwarding time has come, and has sent nothing
C11_Witness ==
    /\ last.at = "tick"
    /\ raised = "none"
    /\ to_radio = << >>
    /\ \E k \in DOMAIN dataPacketTable :
          /\ Ndupl >= 1
          /\ dataPacketTable[k].duplicates = Ndupl
          /\ ~dataPacketTable[k].scheduled
          /\ dataPacketTable[k].data # None
          /\ now >= dataPacketTable[k].forwarding_time
          /\ fwdLife[k] = 0

\* the metadata items a delivered frame may come with
C12_Metas == { EmptyMeta, NotADict, Dict({ <<"CRC_OK", TRUE>>, <<"snr", TRUE>> }) }

\* the delivery of the frame f, heard with metadata m, handing metadata
\* out to the application: one NOTI <<2, addr, src, seq>> on to_radio, one
\* message on to_app with the bytes after the 7-byte header, no table
\* touched
C12_Delivery(f, m, out) ==
    radio_rx_pdu(f, m) =>
        /\ to_radio' = << <<2, addr, f[3], f[4]>> >>
        /\ to_app' = << [meta |-> out, data |-> SubSeq(f, 8, Len(f))] >>
        /\ UNCHANGED tables
        /\ raised' = "none"

C13_AppIngress ==
    [][ \A P \in Payloads :
            app_rx_pdu(P) =>
                /\ UNCHANGED tables
                /\ to_app' = << >>
                /\ raised' = "none"
                /\ to_radio' =
                       IF SINK_ADDR \in DOMAIN sinkTable
                       THEN LET h == sinkTable[SINK_ADDR].min_dx_to_sink
                            IN  << <<0, addr, addr, pkt_cnt, h, SINK_ADDR, h + R>> \o P >>
                       ELSE << >> ]_vars

\* a payload was sent by a node two hops from its sink
C13_Witness ==
    /\ last.at = "sent"
    /\ SINK_ADDR \in DOMAIN sinkTable
    /\ sinkTable[SINK_ADDR].min_dx_to_sink = 2
    /\ to_radio = << <<0, addr, addr, 0, 2, SINK_ADDR, 2 + R, 170>> >>
    /\ dataPacketTable = EmptyTable

\* C14 as stated: pkt_cnt counts the application DATA packets sent, it
\* moves by one modulo 256 at each of them and at no other step, so the
\* k-th application DATA packet sent has SeqNum k modulo 256, whatever
\* submissions were dropped in between.
C14_CountsEmissions == pkt_cnt = appSent % 256

\* C14: pkt_cnt moves by one modulo 256 at each from_app PDU handled,
\* sent or dropped, and at no other step; an application DATA packet sent
\* carries in SeqNum the pkt_cnt of before the step, the number modulo 256
\* of from_app PDUs handled before it.
C14_CountsSubmissions ==
    [][ /\ \A P \in Payloads :
               app_rx_pdu(P) =>
                   /\ pkt_cnt' = (pkt_cnt + 1) % 256
                   /\ to_radio' # << >> =>
                          /\ Len(to_radio') = 1
                          /\ to_radio'[1][4] = pkt_cnt
        /\ pkt_cnt' # pkt_cnt => \E P \in Payloads : app_rx_pdu(P) ]_vars

\* the first application DATA packet sent carries SeqNum 1, a submission
\* having been dropped before it
C14_Witness ==
    /\ last.at = "sent"
    /\ appSent = 1
    /\ pkt_cnt = 2
    /\ Len(to_radio) = 1
    /\ to_radio[1][4] = 1

\* the positions of the beacons among the packets a tick sent
C15_Beacons(out) == { i \in 1..Len(out) : out[i][1] = 1 }

C16_MutualExclusion ==
    /\ [](/\ \A t \in Threads : pc[t] \in Holding <=> lock_owner = t
          /\ lock_owner = NoThread <=> lock_count = 0
          /\ pc["ctrl_in"] = "nested_wait" => CanAcquire("ctrl_in")
          /\ pc["ctrl_in"] = "nested" <=> lock_count = 2)
    /\ [][ <<counters, tables>>' # <<counters, tables>>
               => /\ lock_owner # NoThread
                  /\ pc[lock_owner] = "locked"
                  /\ lock_owner' = lock_owner
                  /\ \A t \in Threads \ {lock_owner} : pc[t] \notin Holding ]_vars

\* the tick sent a sink packet and is inside the lock of send_sink_pkt
\* while the two other handlers wait for the lock
C16_Witness ==
    /\ pc["ctrl_in"] = "nested"
    /\ lock_count = 2
    /\ sink_pkt_xmit_time = now
    /\ pc["from_radio"] = "waiting"
    /\ pc["from_app"] = "waiting"

\* the forward of the sink-table entry of sink k has fired: the node, not
\* the sink, sent a sink packet no earlier than the entry's forwarding time
C17_Fired(k) ==
    /\ addr # SINK_ADDR
    /\ k \in DOMAIN sinkTable
    /\ sink_pkt_xmit_time # NoTime
    /\ sinkTable[k].forwarding_time <= sink_pkt_xmit_time

\* the sink packets of sink k in the output of a tick
C17_Forwards(out, k) == { i \in 1..Len(out) : out[i][1] = SINK_PROTO /\ out[i][3] = k }

\* C17: once the forward of a sink-table entry has fired, a SINK packet of
\* that sink with the entry's sequence number and the hop count of the
\* beacon that was forwarded leaves the entry with scheduled = false, and
\* no later tick sends a SINK packet of that sink for this entry.
C17_ReplayAfterCommit ==
    [][ /\ \A f \in SinkFrames :
               ( /\ radio_rx_pdu(f, EmptyMeta)
                 /\ C17_Fired(f[3])
                 /\ f[4] = sinkTable[f[3]].highest_rcvd_seq_num
                 /\ f[5] = sinkTable[f[3]].temp_min_dx_to_sink ) =>
                   /\ f[3] \in DOMAIN sinkTable'
                   /\ ~sinkTable'[f[3]].scheduled
        /\ ctrl_rx => \A k \in DOMAIN sinkTable :
               C17_Fired(k) => C17_Forwards(to_radio', k) = {} ]_vars

\* the DATA frames heard that are valid and come from another node
C18_Frames == OnePacket(TransitFrames) \cup OtherDataFrames

\* C18: a valid DATA frame whose destination sink is neither this node nor
\* a key of the sink table, or whose TTL - 1 is below min_dx_to_sink of the
\* sink-table entry of its destination, leaves the three tables and the
\* counters unchanged, raises nothing and sends nothing.
C18_SilentDataDrops ==
    [][ \A f \in C18_Frames :
            ( /\ f[6] # addr
              /\ \/ f[6] \notin DOMAIN sinkTable
                 \/ f[7] - 1 < sinkTable[f[6]].min_dx_to_sink
              /\ radio_rx_pdu(f, EmptyMeta) ) =>
                /\ UNCHANGED <<tables, counters>>
                /\ raised' = "none"
                /\ NoOutput ]_vars

\* a DATA frame was dropped by a node that knows a sink at one hop: with
\* an empty data-packet table and nothing sent, the frame was neither
\* delivered nor stored, so it was for an unknown sink or its time to live
\* was too small
C18_Witness ==
    /\ last = [op |-> "from_radio", at |-> "data"]
    /\ to_radio = << >>
    /\ to_app = << >>
    /\ raised = "none"
    /\ \E k \in DOMAIN sinkTable : sinkTable[k].min_dx_to_sink = 1
    /\ dataPacketTable = EmptyTable

\* C19: every SINK packet sent by the sink has Sender = Source = addr and
\* hop count 0, so a sink never sends on the beacon of another sink, and
\* every SINK packet sent by a node that is not the sink has Sender = addr
\* and Source # addr.
C19_ExclusiveRoles ==
    \A i \in 1..Len(to_radio) :
        to_radio[i][1] = SINK_PROTO =>
            IF addr = SINK_ADDR
            THEN to_radio[i][2] = addr /\ to_radio[i][3] = addr /\ to_radio[i][5] = 0
            ELSE to_radio[i][2] = addr /\ to_radio[i][3] # addr

\* a tick of the sink sent its own beacon and nothing else while the entry
\* of another sink was in its sink table, scheduled and due
C19_Witness ==
    /\ addr = SINK_ADDR
    /\ last = [op |-> "ctrl_in", at |-> "tick"]
    /\ Len(to_radio) = 1
    /\ to_radio[1][1] = SINK_PROTO
    /\ \E k \in DOMAIN sinkTable :
           /\ k # addr
           /\ sinkTable[k].scheduled
           /\ sinkTable[k].forwarding_time <= now

\* C20: for every valid SINK packet and either value of the debug flag,
\* the handler raises nothing and leaves in the sink-neighbor table the
\* entry of key (sender, source) with the packet's sequence number and hop
\* count and last_time_heard = now; an entry that was absent is created
\* with the node's broadcast interval.
C20_SinkIngressRecordsNeighbor ==
    [][ \A f \in SinkFrames :
            radio_rx_pdu(f, EmptyMeta) =>
                /\ raised' = "none"
                /\ <<f[2], f[3]>> \in DOMAIN sinkNeighborTable'
                /\ sinkNeighborTable'[<<f[2], f[3]>>].last_rcvd_seq_num = f[4]
                /\ sinkNeighborTable'[<<f[2], f[3]>>].min_dx_to_sink = f[5]
                /\ sinkNeighborTable'[<<f[2], f[3]>>].last_time_heard = now
                /\ <<f[2], f[3]>> \notin DOMAIN sinkNeighborTable =>
                       sinkNeighborTable'[<<f[2], f[3]>>].broadcast_interval
                           = broadcast_interval ]_vars

\* C21: a SINK packet with seq > highest_rcvd_seq_num for a sink already in
\* the sink table sets highest_rcvd_seq_num = seq, temp_min_dx_to_sink = hc,
\* scheduled = true, last_time_heard = now and forwarding_time = now +
\* large_backoff if hc > min_dx_to_sink, else now + small_backoff, and
\* leaves min_dx_to_sink unchanged.
C21_NewerBeacon ==
    [][ \A f \in GradientFrames :
            ( /\ f[3] \in DOMAIN sinkTable
              /\ f[4] > sinkTable[f[3]].highest_rcvd_seq_num
              /\ radio_rx_pdu(f, EmptyMeta) ) =>
                sinkTable'[f[3]] =
                    [highest_rcvd_seq_num |-> f[4],
                     min_dx_to_sink |-> sinkTable[f[3]].min_dx_to_sink,
                     last_time_heard |-> now,
                     forwarding_time |->
                         IF f[5] > sinkTable[f[3]].min_dx_to_sink
                         THEN now + large_backoff ELSE now + small_backoff,
                     scheduled |-> TRUE,
                     temp_min_dx_to_sink |-> f[5]] ]_vars

\* a newer packet heard from two hops away by a node at one hop, some
\* time after the first: scheduled with the large backoff
C21_Witness ==
    /\ last = [op |-> "from_radio", at |-> "sink"]
    /\ now > 0
    /\ \E k \in DOMAIN sinkTable :
           sinkTable[k] = [highest_rcvd_seq_num |-> 1, min_dx_to_sink |-> 1,
                           last_time_heard |-> now,
                           forwarding_time |-> now + large_backoff,
                           scheduled |-> TRUE, temp_min_dx_to_sink |-> 2]

\* C22: for a SINK packet with seq = highest_rcvd_seq_num, an entry that
\* is not scheduled any more, its forward having fired, and hc <
\* min_dx_to_sink, is scheduled again with forwarding_time = now +
\* low_backoff and temp_min_dx_to_sink = hc; an entry still scheduled with
\* hc < temp_min_dx_to_sink changes only temp_min_dx_to_sink and
\* last_time_heard and keeps its forwarding_time.
C22_BetterSameSeq ==
    [][ \A f \in GradientFrames :
            ( /\ f[3] \in DOMAIN sinkTable
              /\ f[4] = sinkTable[f[3]].highest_rcvd_seq_num
              /\ radio_rx_pdu(f, EmptyMeta) ) =>
                /\ ( /\ ~sinkTable[f[3]].scheduled \/ C17_Fired(f[3])
                     /\ f[5] < sinkTable[f[3]].min_dx_to_sink ) =>
                       /\ sinkTable'[f[3]].scheduled
                       /\ sinkTable'[f[3]].forwarding_time = now + low_backoff
                       /\ sinkTable'[f[3]].temp_min_dx_to_sink = f[5]
                /\ ( /\ sinkTable[f[3]].scheduled
                     /\ ~C17_Fired(f[3])
                     /\ f[5] < sinkTable[f[3]].temp_min_dx_to_sink ) =>
                       sinkTable'[f[3]] =
                           [sinkTable[f[3]] EXCEPT !.temp_min_dx_to_sink = f[5],
                                                   !.last_time_heard = now] ]_vars

\* C23: a valid DATA frame for a sink of the sink table at h hops, with
\* TTL - 1 >= h and a key (source, sink, seq) not in the data-packet table,
\* creates the entry scheduled, with no duplicates, last_time_heard = now,
\* a forwarding time in [now + Tmin, now + Tmax] and the received bytes
\* with Sender = addr, HopCount = h and TTL - 1; the pending bytes of an
\* entry are never altered; and the DATA packets a tick sends are exactly
\* the pending bytes of the entries of their keys.
C23_TransitForward ==
    [][ /\ \A f \in OnePacket(TransitFrames) :
               ( /\ f[6] \in DOMAIN sinkTable
                 /\ f[7] - 1 >= sinkTable[f[6]].min_dx_to_sink
                 /\ KeyOfPkt(f) \notin DOMAIN dataPacketTable
                 /\ radio_rx_pdu(f, EmptyMeta) ) =>
                   /\ KeyOfPkt(f) \in DOMAIN dataPacketTable'
                   /\ dataPacketTable'[KeyOfPkt(f)].scheduled
                   /\ dataPacketTable'[KeyOfPkt(f)].duplicates = 0
                   /\ dataPacketTable'[KeyOfPkt(f)].last_time_heard = now
                   /\ dataPacketTable'[KeyOfPkt(f)].forwarding_time
                          \in (now + Tmin)..(now + Tmax)
                   /\ dataPacketTable'[KeyOfPkt(f)].data =
                          <<f[1], addr, f[3], f[4], sinkTable[f[6]].min_dx_to_sink,
                            f[6], f[7] - 1>> \o SubSeq(f, 8, Len(f))
        /\ \A k \in DOMAIN dataPacketTable \cap DOMAIN dataPacketTable' :
               dataPacketTable[k].data # None =>
                   dataPacketTable'[k].data \in { dataPacketTable[k].data, None }
        /\ ctrl_rx =>
               \A i \in 1..Len(to_radio') :
                   to_radio'[i][1] = DATA_PROTO =>
                       /\ KeyOfPkt(to_radio'[i]) \in DOMAIN dataPacketTable
                       /\ to_radio'[i] = dataPacketTable[KeyOfPkt(to_radio'[i])].data ]_vars

\* a tick of node 1, one hop from sink 0, sent the packet of source 3
\* heard with TTL 2 as [0, 1, 3, 0, 1, 0, 1, 170] and cleared its entry
C23_Witness ==
    /\ last = [op |-> "ctrl_in", at |-> "tick"]
    /\ addr = 1
    /\ to_radio = << <<DATA_PROTO, 1, Source, 0, 1, HeardSink, MaxTtl - 1>> \o <<170>> >>
    /\ <<Source, HeardSink, 0>> \in DOMAIN dataPacketTable
    /\ dataPacketTable[<<Source, HeardSink, 0>>].data = None
    /\ ~dataPacketTable[<<Source, HeardSink, 0>>].scheduled

\* a further copy of a packet of the data-packet table that passes the
\* test of the time to live
C24_Copy(f) ==
    /\ f[6] \in DOMAIN sinkTable
    /\ f[7] - 1 >= sinkTable[f[6]].min_dx_to_sink
    /\ KeyOfPkt(f) \in DOMAIN dataPacketTable

\* C24: a further copy of a packet of the data-packet table with HopCount
\* <= min_dx_to_sink changes only duplicates, incremented by one, and
\* scheduled, set to (new duplicates < Ndupl); a copy with a larger
\* HopCount leaves the entry unchanged; and the duplicates of an entry
\* change in no other step, so that they count the copies with HopCount <=
\* min_dx_to_sink heard since the entry was created.
C24_DuplicateAccounting ==
    [][ /\ \A f \in OnePacket(TransitFrames) :
               (C24_Copy(f) /\ radio_rx_pdu(f, EmptyMeta)) =>
                   dataPacketTable'[KeyOfPkt(f)] =
                       IF f[5] <= sinkTable[f[6]].min_dx_to_sink
                       THEN [dataPacketTable[KeyOfPkt(f)] EXCEPT
                                !.duplicates = @ + 1,
                                !.scheduled =
                                    dataPacketTable[KeyOfPkt(f)].duplicates + 1 < Ndupl]
                       ELSE dataPacketTable[KeyOfPkt(f)]
        /\ \A k \in DOMAIN dataPacketTable \cap DOMAIN dataPacketTable' :
               dataPacketTable'[k].duplicates # dataPacketTable[k].duplicates =>
                   \E f \in OnePacket(TransitFrames) :
                       /\ KeyOfPkt(f) = k
                       /\ C24_Copy(f)
                       /\ f[5] <= sinkTable[f[6]].min_dx_to_sink
                       /\ radio_rx_pdu(f, EmptyMeta)
        /\ \A k \in DOMAIN dataPacketTable' \ DOMAIN dataPacketTable :
               dataPacketTable'[k].duplicates = 0 ]_vars

\* one copy was counted some time after the packet was stored: with
\* Ndupl = 2 the entry is still scheduled, its bytes, last_time_heard and
\* forwarding_time as they were stored
C24_Witness ==
    /\ last = [op |-> "from_radio", at |-> "data"]
    /\ Ndupl = 2
    /\ \E k \in DOMAIN dataPacketTable :
           /\ dataPacketTable[k].duplicates = 1
           /\ dataPacketTable[k].scheduled
           /\ dataPacketTable[k].data # None
           /\ dataPacketTable[k].last_time_heard < now
           /\ dataPacketTable[k].forwarding_time > now

\* the larger of two sequence numbers, as raw values
C25_Max(a, b) == IF a >= b THEN a ELSE b

\* C25: the sink-table entry created by a SINK packet records its sequence
\* number, every further SINK packet of that sink leaves the larger of the
\* recorded and the received raw values, and no other step changes
\* highest_rcvd_seq_num, which therefore never decreases while the entry
\* lives; a packet with a smaller sequence number, such as 0 after 255,
\* changes only last_time_heard, set to now.
C25_HighestSeq ==
    [][ /\ \A f \in GradientFrames :
               radio_rx_pdu(f, EmptyMeta) =>
                   /\ f[3] \in DOMAIN sinkTable'
                   /\ sinkTable'[f[3]].last_time_heard = now
                   /\ sinkTable'[f[3]].highest_rcvd_seq_num =
                          IF f[3] \in DOMAIN sinkTable
                          THEN C25_Max(sinkTable[f[3]].highest_rcvd_seq_num, f[4])
                          ELSE f[4]
                   /\ ( /\ f[3] \in DOMAIN sinkTable
                        /\ f[4] < sinkTable[f[3]].highest_rcvd_seq_num ) =>
                          sinkTable'[f[3]] =
                              [sinkTable[f[3]] EXCEPT !.last_time_heard = now]
        /\ \A k \in DOMAIN sinkTable \cap DOMAIN sinkTable' :
               /\ sinkTable'[k].highest_rcvd_seq_num >= sinkTable[k].highest_rcvd_seq_num
               /\ sinkTable'[k].highest_rcvd_seq_num # sinkTable[k].highest_rcvd_seq_num =>
                      \E f \in GradientFrames : f[3] = k /\ radio_rx_pdu(f, EmptyMeta) ]_vars

\* sequence number 0 was heard some time after 255: the neighbour's entry
\* records 0, the sink's entry keeps 255 and its forwarding time, and is
\* refreshed
C25_Witness ==
    /\ last = [op |-> "from_radio", at |-> "sink"]
    /\ \E k \in DOMAIN sinkTable :
           /\ sinkTable[k].highest_rcvd_seq_num = LastSeq
           /\ sinkTable[k].last_time_heard = now
           /\ sinkTable[k].forwarding_time < now + small_backoff
           /\ \E n \in DOMAIN sinkNeighborTable :
                  /\ n[2] = k
                  /\ sinkNeighborTable[n].last_rcvd_seq_num = 0

\* the keys of the data packets a forwarder hears in transit to sink 0
C26_Keys == { <<Source, 0, sn>> : sn \in 0..MaxSeq }

\* the entry waits for its forward, below Ndupl duplicates
C26_Pending(k) ==
    /\ k \in DOMAIN dataPacketTable
    /\ dataPacketTable[k].scheduled
    /\ dataPacketTable[k].data # None
    /\ dataPacketTable[k].duplicates < Ndupl

\* the packet was sent by a tick, which may have purged the forwarded
\* entry at once, or its entry is not scheduled any more: cancelled by a
\* notification or suppressed by Ndupl duplicates
C26_Settled(k) ==
    \/ k \in forwarded
    \/ /\ k \in DOMAIN dataPacketTable
       /\ ~dataPacketTable[k].scheduled

\* C26: with Tmax <= Plt, ticks that keep occurring and time that
\* advances, every pending entry of the data-packet table that gets no
\* notification and stays below Ndupl duplicates is eventually sent by a
\* tick, and is not purged before.
C26_ForwardingLive == \A k \in C26_Keys : C26_Pending(k) ~> C26_Settled(k)

\* C27: in every state every scheduled entry of the data-packet table
\* holds its pending bytes, and no tick has raised an error.
C27_ScheduledHasBytes ==
    /\ \A k \in DOMAIN dataPacketTable :
           dataPacketTable[k].scheduled => dataPacketTable[k].data # None
    /\ last.op = "ctrl_in" => raised = "none"

\* C28: a tick of a node that is not the sink sends no SINK packet of a
\* sink k whose forward has fired since the entry of k was last scheduled
\* by a SINK packet.
C28_OneForwardPerScheduling ==
    [][ (ctrl_rx /\ addr # SINK_ADDR) =>
            \A i \in 1..Len(to_radio') :
                to_radio'[i][1] = SINK_PROTO => ~C17_Fired(to_radio'[i][3]) ]_vars

\* C29: in every state the sink table has no key equal to addr, the
\* sink-neighbor table no key whose sender or sink is addr, the data-packet
\* table no key whose source or destination is addr; and after a from_app
\* message the node that is the sink has sent nothing.
C29_NoSelfKeys ==
    /\ addr \notin DOMAIN sinkTable
    /\ \A n \in DOMAIN sinkNeighborTable : n[1] # addr /\ n[2] # addr
    /\ \A k \in DOMAIN dataPacketTable : k[1] # addr /\ k[2] # addr
    /\ (addr = SINK_ADDR /\ last.op = "from_app") => to_radio = << >>

\* the sink, which has learnt of another sink and of a neighbour, was
\* handed a payload by its application and sent nothing
C29_Witness ==
    /\ addr = SINK_ADDR
    /\ last = [op |-> "from_app", at |-> "sent"]
    /\ pkt_cnt = 1
    /\ to_radio = << >>
    /\ sinkTable # EmptyTable
    /\ sinkNeighborTable # EmptyTable

\* C30: an entry of the data-packet table that holds its bytes, created
\* at t0 = last_time_heard, has its forwarding time in [t0 + Tmin, t0 +
\* Tmax], whatever copies were counted since; and every DATA packet a tick
\* sends for an entry is sent at a time >= t0 + Tmin and >= the entry's
\* forwarding time.
C30_NeverEarly ==
    /\ [](\A k \in DOMAIN dataPacketTable :
              dataPacketTable[k].data # None =>
                  dataPacketTable[k].forwarding_time \in
                      (dataPacketTable[k].last_time_heard + Tmin)
                          ..(dataPacketTable[k].last_time_heard + Tmax))
    /\ [][ ctrl_rx =>
               \A i \in 1..Len(to_radio') :
                   to_radio'[i][1] = DATA_PROTO =>
                       /\ KeyOfPkt(to_radio'[i]) \in DOMAIN dataPacketTable
                       /\ dataPacketTable[KeyOfPkt(to_radio'[i])].data # None
                       /\ now >= dataPacketTable[KeyOfPkt(to_radio'[i])].last_time_heard + Tmin
                       /\ now >= dataPacketTable[KeyOfPkt(to_radio'[i])].forwarding_time ]_vars

\* a tick sent a packet exactly Tmin after it was stored, one copy having
\* been counted in between
C30_Witness ==
    /\ last = [op |-> "ctrl_in", at |-> "tick"]
    /\ \E k \in DOMAIN dataPacketTable :
           /\ Forwards(to_radio, k) # {}
           /\ dataPacketTable[k].data = None
           /\ dataPacketTable[k].duplicates = 1
           /\ dataPacketTable[k].last_time_heard + Tmin = now

\* C31: every value of every packet handed to to_radio is a byte, in
\* 0..255: the hop count of a forwarded SINK packet and the hop count and
\* TTL of a DATA packet of the application included.
C31_BytesInRange ==
    \A i \in 1..Len(to_radio) :
        \A j \in 1..Len(to_radio[i]) : to_radio[i][j] \in 0..LastByte

====
